---- MODULE Spec2Model ----
(***************************************************************************)
(* Model of structured_openai.py: generate_structured_openai_call builds a *)
(* closure (inner_function) that sends one chat-completion request with a  *)
(* forced function call and returns json.loads of the returned arguments.  *)
(*                                                                         *)
(* Python objects that are shared by reference are modelled as objects:    *)
(* the caller's response_properties dict, the dict created by the merge at *)
(* line 34-39, and the descriptor dicts they point to.                     *)
(***************************************************************************)
EXTENDS Integers, Sequences, FiniteSets, TLC

\* ---------------------------------------------------------------- bounds
MaxKeys == 2        \* keys in the caller's response_properties at build time
MaxCalls == 2       \* invocations of the returned callable
MaxMutations == 1   \* changes the caller makes to its mapping after the build

\* ------------------------------------------------------- Python dict model
\* A dict is the sequence of its items in insertion order, without duplicate
\* keys. Each item is [k |-> key, v |-> value].
Keys(items) == [i \in 1..Len(items) |-> items[i].k]

KeySet(items) == {items[i].k : i \in 1..Len(items)}

HasKey(items, key) == key \in KeySet(items)

Get(items, key) == items[CHOOSE i \in 1..Len(items) : items[i].k = key].v

\* d[key] = value: an existing key keeps its position and takes the new
\* value; a new key goes last.
DictSet(items, key, value) ==
    IF HasKey(items, key)
    THEN [i \in 1..Len(items) |->
            IF items[i].k = key THEN [k |-> key, v |-> value] ELSE items[i]]
    ELSE Append(items, [k |-> key, v |-> value])

\* del d[key]
DictDel(items, key) == SelectSeq(items, LAMBDA it : it.k # key)

RECURSIVE DictUpdate(_, _)
DictUpdate(items, other) ==
    IF other = <<>> THEN items
    ELSE DictUpdate(DictSet(items, Head(other).k, Head(other).v), Tail(other))

\* A mutant of the merge: the operands taken in the wrong order.
DictMergeSwapped(left, right) == DictUpdate(right, left)

\* left | right : a new dict, left's items first, then right's; on a key of
\* both, left's position and right's value.
DictMerge(left, right) == DictUpdate(left, right)

\* ------------------------------------------------------------- JSON values
\* null, true/false, numbers, strings, arrays and objects, as json.loads
\* builds them; an object is a dict (sequence of items).
JNull == [t |-> "null"]
JBool(b) == [t |-> "bool", b |-> b]
JNum(n) == [t |-> "num", n |-> n]
JStr(s) == [t |-> "str", s |-> s]
JArray(elems) == [t |-> "array", elems |-> elems]
JObject(items) == [t |-> "object", items |-> items]

\* ------------------------------------------------------------ JSON lexemes
\* An arguments string is the sequence of its lexemes.
Punct(c) == [lex |-> "punct", text |-> c]
StrLit(s) == [lex |-> "string", text |-> s]
NumLit(s) == [lex |-> "number", text |-> s]
Word(s) == [lex |-> "word", text |-> s]

NumOf(text) == CASE text = "0" -> 0 [] text = "1" -> 1 [] OTHER -> 42

ParseFail == [ok |-> FALSE, val |-> JNull, next |-> 0]

ParseOk(val, next) == [ok |-> TRUE, val |-> val, next |-> next]

IsPunct(toks, i, c) == i <= Len(toks) /\ toks[i] = Punct(c)

RECURSIVE ParseValue(_, _)
RECURSIVE ParseElements(_, _, _)
RECURSIVE ParseMembers(_, _, _)

\* One JSON value starting at lexeme i.
ParseValue(toks, i) ==
    IF i > Len(toks) THEN ParseFail
    ELSE LET tok == toks[i] IN
         CASE tok.lex = "string" -> ParseOk(JStr(tok.text), i + 1)
           [] tok.lex = "number" -> ParseOk(JNum(NumOf(tok.text)), i + 1)
           [] tok = Word("null") -> ParseOk(JNull, i + 1)
           [] tok = Word("true") -> ParseOk(JBool(TRUE), i + 1)
           [] tok = Word("false") -> ParseOk(JBool(FALSE), i + 1)
           [] tok = Punct("[") ->
                IF IsPunct(toks, i + 1, "]") THEN ParseOk(JArray(<<>>), i + 2)
                ELSE ParseElements(toks, i + 1, <<>>)
           [] tok = Punct("{") ->
                IF IsPunct(toks, i + 1, "}") THEN ParseOk(JObject(<<>>), i + 2)
                ELSE ParseMembers(toks, i + 1, <<>>)
           [] OTHER -> ParseFail

\* value ("," value)* "]"
ParseElements(toks, i, acc) ==
    LET r == ParseValue(toks, i) IN
    IF ~r.ok THEN ParseFail
    ELSE IF IsPunct(toks, r.next, ",")
         THEN ParseElements(toks, r.next + 1, Append(acc, r.val))
    ELSE IF IsPunct(toks, r.next, "]")
         THEN ParseOk(JArray(Append(acc, r.val)), r.next + 1)
    ELSE ParseFail

\* string ":" value ("," string ":" value)* "}" ; a repeated key keeps the
\* last value.
ParseMembers(toks, i, acc) ==
    IF ~(i <= Len(toks) /\ toks[i].lex = "string" /\ IsPunct(toks, i + 1, ":"))
    THEN ParseFail
    ELSE LET r == ParseValue(toks, i + 2) IN
         IF ~r.ok THEN ParseFail
         ELSE IF IsPunct(toks, r.next, ",")
              THEN ParseMembers(toks, r.next + 1, DictSet(acc, toks[i].text, r.val))
         ELSE IF IsPunct(toks, r.next, "}")
              THEN ParseOk(JObject(DictSet(acc, toks[i].text, r.val)), r.next + 1)
         ELSE ParseFail

\* Mutants of json.loads: one that answers an empty mapping instead of
\* raising, one that drops the last key of an object.
JsonLoadsLenient(s) ==
    LET r == ParseValue(s, 1) IN
    IF r.ok /\ r.next = Len(s) + 1 THEN [ok |-> TRUE, val |-> r.val]
    ELSE [ok |-> TRUE, val |-> JObject(<<>>)]

JsonLoadsDropping(s) ==
    LET r == ParseValue(s, 1) IN
    IF r.ok /\ r.next = Len(s) + 1
    THEN [ok |-> TRUE,
          val |-> IF r.val.t = "object" /\ r.val.items # <<>>
                  THEN JObject(SubSeq(r.val.items, 1, Len(r.val.items) - 1))
                  ELSE r.val]
    ELSE [ok |-> FALSE, val |-> JNull]

\* json.loads(s): the value of the whole string, or a JSONDecodeError
\* (ok = FALSE) when no value parses or lexemes are left over.
JsonLoads(s) ==
    LET r == ParseValue(s, 1) IN
    IF r.ok /\ r.next = Len(s) + 1 THEN [ok |-> TRUE, val |-> r.val]
    ELSE [ok |-> FALSE, val |-> JNull]

\* --------------------------------------------------- the external service
\* What chat.completions.create can do with one request: fail to reach the
\* service, answer with an error status, answer with a message that holds no
\* function call, or answer with a function call whose arguments are a string.
Encode(items) == <<Punct("{")>> \o items \o <<Punct("}")>>

Member(key, val) == <<StrLit(key), Punct(":")>> \o val

Comma == <<Punct(",")>>

\* Arguments strings that are JSON objects, each with the value it denotes.
ObjectArguments ==
    { [text |-> Encode(<<>>), value |-> JObject(<<>>)],
      [text |-> Encode(Member("location_name", <<StrLit("Milky Way")>>)),
       value |-> JObject(<<[k |-> "location_name", v |-> JStr("Milky Way")]>>)],
      [text |-> Encode(Member("original_input", <<StrLit("Our galaxy")>>) \o Comma
                       \o Member("location_name", <<StrLit("Milky Way")>>)),
       value |-> JObject(<<[k |-> "original_input", v |-> JStr("Our galaxy")],
                           [k |-> "location_name", v |-> JStr("Milky Way")]>>)],
      [text |-> Encode(Member("original_input", <<StrLit("Our galaxy")>>) \o Comma
                       \o Member("location_name", <<NumLit("1")>>) \o Comma
                       \o Member("distance", <<Punct("["), Word("true"), Comma[1],
                                        Word("null"), Punct("]")>>)),
       value |-> JObject(<<[k |-> "original_input", v |-> JStr("Our galaxy")],
                           [k |-> "location_name", v |-> JNum(1)],
                           [k |-> "distance", v |-> JArray(<<JBool(TRUE), JNull>>)]>>)],
      [text |-> Encode(Member("location_name", <<NumLit("0")>>) \o Comma
                       \o Member("location_name", Encode(<<>>))),
       value |-> JObject(<<[k |-> "location_name", v |-> JObject(<<>>)]>>)] }

\* Arguments strings that are valid JSON but no object.
NonObjectArguments ==
    { [text |-> <<Word("null")>>, value |-> JNull],
      [text |-> <<Word("false")>>, value |-> JBool(FALSE)],
      [text |-> <<NumLit("1")>>, value |-> JNum(1)],
      [text |-> <<StrLit("Milky Way")>>, value |-> JStr("Milky Way")],
      [text |-> <<Punct("["), Punct("]")>>, value |-> JArray(<<>>)],
      [text |-> <<Punct("[")>> \o Encode(Member("location_name", <<NumLit("1")>>))
                \o <<Punct("]")>>,
       value |-> JArray(<<JObject(<<[k |-> "location_name", v |-> JNum(1)]>>)>>)] }

ValidArguments == ObjectArguments \cup NonObjectArguments

\* Arguments strings that are not JSON: empty, truncated, a missing value, a
\* missing colon, a trailing comma, a key that is no string, text after the
\* value, an unknown word.
MalformedArguments ==
    { <<>>,
      <<Punct("{")>>,
      <<Punct("{"), StrLit("location_name"), Punct(":"), Punct("}")>>,
      <<Punct("{"), StrLit("location_name"), StrLit("Milky Way"), Punct("}")>>,
      <<Punct("{"), StrLit("location_name"), Punct(":"), NumLit("1"), Punct(","), Punct("}")>>,
      <<Punct("{"), NumLit("1"), Punct(":"), NumLit("1"), Punct("}")>>,
      <<Punct("{"), Punct("}"), Punct("}")>>,
      <<Punct("["), NumLit("1"), Punct(","), Punct("]")>>,
      <<Word("Milky")>> }

ArgumentStrings == {a.text : a \in ValidArguments} \cup MalformedArguments

NoArguments == <<Word("-")>>

TransportError == [kind |-> "transport_error", arguments |-> NoArguments]
StatusError == [kind |-> "status_error", arguments |-> NoArguments]
NoFunctionCall == [kind |-> "no_function_call", arguments |-> NoArguments]
FunctionCall(s) == [kind |-> "function_call", arguments |-> s]

\* Every arguments string of the lists above, as a reply.
ArgumentReplies == {FunctionCall(s) : s \in ArgumentStrings}

\* One reply of each kind: the three failures, a function call with the
\* arguments of the example of line 82, and one with malformed arguments.
ExampleArguments ==
    Encode(Member("original_input", <<StrLit("Our galaxy")>>) \o Comma
           \o Member("location_name", <<StrLit("Milky Way")>>))

Replies ==
    {TransportError, StatusError, NoFunctionCall,
     FunctionCall(ExampleArguments), FunctionCall(<<Punct("{")>>)}

\* ------------------------------------------------------------- the inputs
Prompts == {"The name of our location, at this resolution", "Classify the input"}

DefaultModel == "gpt-3.5-turbo"

DefaultTemperature == 0

\* model and temperature: both left at their defaults, or both given.
Settings ==
    {[model |-> DefaultModel, temperature |-> DefaultTemperature],
     [model |-> "gpt-4", temperature |-> 1]}

UserInputs == {"", "Our galaxy"}

PropertyNames == {"original_input", "location_name", "distance"}

\* The key sequences a caller's dict can have: no key twice.
KeySeqs ==
    UNION { { ks \in [1..n -> PropertyNames] :
                \A i, j \in 1..n : i # j => ks[i] # ks[j] } : n \in 0..MaxKeys }

\* Values of response_properties that are no mapping.
NonMappingKinds == {"list", "NoneType"}

\* A descriptor as the caller writes it, and the one of line 35-38.
CallerDescriptor == [type |-> "string", description |-> "caller's description"]

OriginalInputDescriptor ==
    [type |-> "string", description |-> "The original user input"]

OriginalInputId == 0

NoRequest == [sent |-> FALSE]

NoOutcome == [kind |-> "none", value |-> JNull, error |-> "-"]

Returned(val) == [kind |-> "returned", value |-> val, error |-> "-"]

Raised(err) == [kind |-> "raised", value |-> JNull, error |-> err]

\* --------------------------------------------------------------- the state
VARIABLES
    phase,                   \* "loaded", "built" or "build_raised"
    prompt, model, temperature, include_original_input,
                             \* the arguments the closure captured
    response_properties,     \* the object the closure's variable refers to:
                             \* "argument" (the caller's) or "merged" (line 34)
    argument,                \* the caller's object: [kind, items]
    merged,                  \* the items of the dict created at line 34
    descriptors,             \* the descriptor objects, by identity
    built,                   \* the caller's keys and the schema at build time
    request, user_input,     \* the last request sent, the last user input
    reply, outcome,          \* the last reply, what the last invocation did
    requests, invocations, mutations

vars == <<phase, prompt, model, temperature, include_original_input,
          response_properties, argument, merged, descriptors, built,
          request, user_input, reply, outcome,
          requests, invocations, mutations>>

Init ==
    /\ phase = "loaded"
    /\ prompt = "-"
    /\ model = "-"
    /\ temperature = DefaultTemperature
    /\ include_original_input = TRUE
    /\ response_properties = "argument"
    /\ argument = [kind |-> "dict", items |-> <<>>]
    /\ merged = <<>>
    /\ descriptors = <<>>
    /\ built = [keys |-> <<>>, properties |-> <<>>]
    /\ request = NoRequest
    /\ user_input = "-"
    /\ reply = NoFunctionCall
    /\ outcome = NoOutcome
    /\ requests = 0
    /\ invocations = 0
    /\ mutations = 0

\* The dict the closure's response_properties refers to.
Properties == IF response_properties = "merged" THEN merged ELSE argument.items

\* A dict of descriptors as it is serialised: each key with the present
\* content of its descriptor object.
Resolve(items, heap) ==
    [i \in 1..Len(items) |-> [k |-> items[i].k, v |-> heap[items[i].v]]]

\* ------------------------------------------ generate_structured_openai_call
\* A mutant of the operand check of the merge: anything is merged.
CanMergeAnything(kind) == TRUE

\* dict | other is defined for a dict (a mapping type that implements the
\* reflected operator is a dict here); for any other operand it raises
\* TypeError.
CanMerge(kind) == kind = "dict"

\* The call with the caller's object arg, whose descriptor objects are heap.
GenerateStructuredOpenaiCall(p, arg, heap, m, t, inc) ==
    /\ phase = "loaded"
    /\ prompt' = p
    /\ model' = m
    /\ temperature' = t
    /\ include_original_input' = inc
    /\ argument' = arg
    /\ IF inc /\ ~CanMerge(arg.kind)
       THEN \* line 34-39 raises: no callable is returned
            /\ phase' = "build_raised"
            /\ outcome' = Raised("TypeError")
            /\ UNCHANGED <<response_properties, merged, descriptors, built>>
       ELSE /\ phase' = "built"
            /\ outcome' = NoOutcome
            /\ IF inc
               THEN /\ response_properties' = "merged"
                    /\ merged' = DictMerge(<<[k |-> "original_input",
                                              v |-> OriginalInputId]>>, arg.items)
                    /\ descriptors' = (OriginalInputId :> OriginalInputDescriptor) @@ heap
               ELSE /\ response_properties' = "argument"
                    /\ merged' = <<>>
                    /\ descriptors' = heap
            /\ built' = [keys |-> Keys(arg.items),
                         properties |-> Resolve(Properties', descriptors')]
    /\ UNCHANGED <<request, user_input, reply, requests, invocations, mutations>>

\* The caller's dict with the keys ks, each with a descriptor object of its own.
CallerItems(ks) == [i \in 1..Len(ks) |-> [k |-> ks[i], v |-> i]]

CallerHeap(ks) == [i \in 1..Len(ks) |-> CallerDescriptor]

Build ==
    \E p \in Prompts, st \in Settings, inc \in BOOLEAN, ks \in KeySeqs :
        GenerateStructuredOpenaiCall(p, [kind |-> "dict", items |-> CallerItems(ks)],
                                     CallerHeap(ks), st.model, st.temperature, inc)

\* The same call with a response_properties that is no mapping.
BuildNonMapping ==
    \E p \in Prompts, st \in Settings, inc \in BOOLEAN, kind \in NonMappingKinds :
        GenerateStructuredOpenaiCall(p, [kind |-> kind, items |-> <<>>], <<>>,
                                     st.model, st.temperature, inc)

\* The call of the example of line 72-80, with either include_original_input.
BuildExample ==
    \E inc \in BOOLEAN :
        GenerateStructuredOpenaiCall("The name of our location, at this resolution",
                                     [kind |-> "dict",
                                      items |-> CallerItems(<<"location_name">>)],
                                     CallerHeap(<<"location_name">>),
                                     DefaultModel, DefaultTemperature, inc)

\* ----------------------------------------------------------- inner_function
\* A mutant of the messages: an empty user input is left out.
MessagesSkippingEmpty(p, u) ==
    IF u = "" THEN <<[role |-> "system", content |-> p]>>
    ELSE <<[role |-> "system", content |-> p], [role |-> "user", content |-> u]>>

\* line 44-47
Messages(p, u) ==
    <<[role |-> "system", content |-> p], [role |-> "user", content |-> u]>>

\* A mutant of the required list: the synthetic key is not required.
RequiredWithoutOriginalInput(items) ==
    Keys(SelectSeq(items, LAMBDA it : it.k # "original_input"))

\* line 56-58: list(response_properties.keys())
Required(items) == Keys(items)

\* The request of line 42-63, with the dict as it is serialised now.
ChatRequest(u) ==
    [sent |-> TRUE,
     model |-> model,
     messages |-> Messages(prompt, u),
     temperature |-> temperature,
     functions |-> <<[name |-> "structured_response",
                      description |-> "Responses must always be structured this way",
                      parameters |-> [type |-> "object",
                                      properties |-> Resolve(Properties, descriptors),
                                      required |-> Required(Properties)]]>>,
     function_call |-> [name |-> "structured_response"]]

\* A mutant of the reply handling: an error of the call is caught and an
\* empty mapping returned.
OutcomeSwallowing(r) ==
    CASE r.kind = "transport_error" -> Returned(JObject(<<>>))
      [] r.kind = "status_error" -> Returned(JObject(<<>>))
      [] r.kind = "no_function_call" -> Raised("AttributeError")
      [] OTHER -> LET parsed == JsonLoads(r.arguments) IN
                  IF parsed.ok THEN Returned(parsed.val) ELSE Returned(JObject(<<>>))

\* What the invocation does with the reply: an exception of create (line 42)
\* or of line 64-65 leaves inner_function; otherwise the parsed arguments are
\* returned as they are.
OutcomeOf(r) ==
    CASE r.kind = "transport_error" -> Raised("APIConnectionError")
      [] r.kind = "status_error" -> Raised("APIStatusError")
      [] r.kind = "no_function_call" -> Raised("AttributeError")
      [] OTHER -> LET parsed == JsonLoads(r.arguments) IN
                  IF parsed.ok THEN Returned(parsed.val) ELSE Raised("JSONDecodeError")

\* The object response_properties refers to has a keys() method.
HasKeysMethod == response_properties = "merged" \/ argument.kind = "dict"

\* One invocation with the user input u, the service answering r.
Invoke(u, r) ==
    /\ phase = "built"
    /\ invocations < MaxCalls
    /\ HasKeysMethod
    /\ user_input' = u
    /\ invocations' = invocations + 1
    /\ request' = ChatRequest(u)
    /\ requests' = requests + 1
    /\ reply' = r
    /\ outcome' = OutcomeOf(r)
    /\ UNCHANGED <<phase, prompt, model, temperature, include_original_input,
                   response_properties, argument, merged, descriptors, built,
                   mutations>>

InnerFunction == \E u \in UserInputs, r \in Replies : Invoke(u, r)

\* The same invocation, the service answering with any arguments string.
InnerFunctionDecode == \E u \in UserInputs, r \in ArgumentReplies : Invoke(u, r)

\* response_properties.keys() at line 57 raises before create is called.
InnerFunctionNoKeys ==
    \E u \in UserInputs :
        /\ phase = "built"
        /\ invocations < MaxCalls
        /\ ~HasKeysMethod
        /\ user_input' = u
        /\ invocations' = invocations + 1
        /\ outcome' = Raised("AttributeError")
        /\ UNCHANGED <<phase, prompt, model, temperature, include_original_input,
                       response_properties, argument, merged, descriptors, built,
                       request, reply, requests, mutations>>

\* ------------------------------------------------------------- the caller
\* Between invocations the caller may change the dict it passed in: it still
\* holds the object.
CallerCanMutate ==
    /\ phase = "built"
    /\ argument.kind = "dict"
    /\ mutations < MaxMutations

FreshId == Cardinality(DOMAIN descriptors \ {OriginalInputId}) + 1

UnchangedByCaller ==
    UNCHANGED <<phase, prompt, model, temperature, include_original_input,
                response_properties, merged, built, request, user_input, reply,
                outcome, requests, invocations>>

\* response_properties[key] = {"type": "number", ...}
CallerSetItem ==
    \E key \in PropertyNames :
        /\ CallerCanMutate
        /\ descriptors' = descriptors @@
               (FreshId :> [type |-> "number", description |-> "caller's description"])
        /\ argument' = [argument EXCEPT !.items = DictSet(@, key, FreshId)]
        /\ mutations' = mutations + 1
        /\ UnchangedByCaller

\* del response_properties[key]
CallerDelItem ==
    \E key \in PropertyNames :
        /\ CallerCanMutate
        /\ HasKey(argument.items, key)
        /\ argument' = [argument EXCEPT !.items = DictDel(@, key)]
        /\ mutations' = mutations + 1
        /\ UNCHANGED descriptors
        /\ UnchangedByCaller

\* response_properties[key]["type"] = "number"
CallerEditDescriptor ==
    \E key \in PropertyNames :
        /\ CallerCanMutate
        /\ HasKey(argument.items, key)
        /\ descriptors[Get(argument.items, key)].type # "number"
        /\ descriptors' = [descriptors EXCEPT ![Get(argument.items, key)].type = "number"]
        /\ mutations' = mutations + 1
        /\ UNCHANGED argument
        /\ UnchangedByCaller

\* ------------------------------------------------------ the specifications
\* Spec: response_properties is a dict, as the signature says.
Next ==
    \/ Build
    \/ InnerFunction
    \/ CallerSetItem
    \/ CallerDelItem
    \/ CallerEditDescriptor

Spec == Init /\ [][Next]_vars

\* SpecAnyValue: response_properties may be any value.
NextAnyValue ==
    \/ Build
    \/ BuildNonMapping
    \/ InnerFunction
    \/ InnerFunctionNoKeys
    \/ CallerSetItem
    \/ CallerDelItem
    \/ CallerEditDescriptor

SpecAnyValue == Init /\ [][NextAnyValue]_vars

\* SpecDecode: the example's callable against every arguments string.
NextDecode ==
    \/ BuildExample
    \/ InnerFunctionDecode

SpecDecode == Init /\ [][NextDecode]_vars

\* ------------------------------------------------------------- the claims
RequestParameters == request.functions[1].parameters

WithoutOriginalInput(ks) == SelectSeq(ks, LAMBDA k : k # "original_input")

C2_RequiredIsKeys ==
    request.sent => RequestParameters.required = Keys(RequestParameters.properties)

\* A request whose schema has the synthetic key and two caller's keys.
C2_Witness ==
    /\ request.sent
    /\ include_original_input
    /\ RequestParameters.required = <<"original_input", "distance", "location_name">>

\* C3: every request carries the model, prompt, temperature and effective
\* schema that were fixed at build time, whatever the caller did to its
\* mapping since.
C3_ConfigurationFixed ==
    request.sent =>
        /\ request.model = model
        /\ request.messages[1].content = prompt
        /\ request.temperature = temperature
        /\ RequestParameters.properties = built.properties

\* C4: when the service returns arguments that are valid JSON, the invocation
\* returns exactly the value the string denotes.
C4_RoundTrip ==
    \A a \in ValidArguments :
        (requests > 0 /\ reply = FunctionCall(a.text)) => outcome = Returned(a.value)

\* The invocation returned the object of three keys, one of them an array.
C4_Witness ==
    /\ outcome.kind = "returned"
    /\ outcome.value.t = "object"
    /\ Keys(outcome.value.items) = <<"original_input", "location_name", "distance">>
    /\ Get(outcome.value.items, "distance") = JArray(<<JBool(TRUE), JNull>>)

C6_NonObjectRaises ==
    \A a \in NonObjectArguments :
        (requests > 0 /\ reply = FunctionCall(a.text)) => outcome.kind = "raised"

\* C7: every result an invocation returns is a mapping with a value for every
\* key of the effective schema of its request.
C7_CompleteResult ==
    outcome.kind = "returned" =>
        /\ outcome.value.t = "object"
        /\ \A key \in KeySet(RequestParameters.properties) :
              HasKey(outcome.value.items, key)

\* C8: the build sends no request; every invocation sends exactly one, also
\* when the call or the decoding fails; no step but an invocation sends one;
\* the error of a failed invocation is what the caller gets.
C8_OneRequestPerInvocation ==
    [][/\ phase = "loaded" => requests' = requests
       /\ requests' # requests => invocations' = invocations + 1
       /\ invocations' # invocations =>
            /\ invocations' = invocations + 1
            /\ requests' = requests + 1
            /\ reply'.kind = "transport_error" => outcome' = Raised("APIConnectionError")
            /\ reply'.kind = "status_error" => outcome' = Raised("APIStatusError")
            /\ reply' = FunctionCall(<<Punct("{")>>) => outcome' = Raised("JSONDecodeError")]_vars

\* Two invocations, two requests, the second failed in transport.
C8_Witness ==
    /\ invocations = 2
    /\ requests = 2
    /\ outcome = Raised("APIConnectionError")

\* C9 as stated: the build never raises.
C9_NoBuildError == phase # "build_raised"

\* C9 as amended: the build raises exactly when response_properties is no
\* mapping and include_original_input is true, and returns a callable in
\* every other case without sending a request; a mapping is never rejected
\* locally, every invocation with it reaches the service; a value that is no
\* mapping, built with include_original_input false, makes every invocation
\* raise before a request is sent.
C9_BuildErrors ==
    /\ phase # "loaded" =>
          (phase = "build_raised" <=> (argument.kind # "dict" /\ include_original_input))
    /\ invocations = 0 => requests = 0
    /\ (phase = "built" /\ argument.kind = "dict") => requests = invocations
    /\ (phase = "built" /\ argument.kind # "dict") =>
          /\ requests = 0
          /\ invocations > 0 => outcome = Raised("AttributeError")

\* The build raised on a value that is no mapping.
C9_Witness ==
    /\ phase = "build_raised"
    /\ argument.kind = "list"
    /\ outcome = Raised("TypeError")

\* C10: every invocation sends a request, whose messages are the build-time
\* prompt as the system message and then the user input, unchanged, as the
\* user message, and which forces the one function "structured_response".
C10_Messages ==
    /\ invocations > 0 => request.sent
    /\ request.sent =>
          /\ request.messages = <<[role |-> "system", content |-> prompt],
                                  [role |-> "user", content |-> user_input]>>
          /\ Len(request.functions) = 1
          /\ request.functions[1].name = "structured_response"
          /\ request.function_call = [name |-> "structured_response"]

\* A request was sent for the empty user input.
C10_Witness ==
    /\ request.sent
    /\ user_input = ""
    /\ request.messages[2] = [role |-> "user", content |-> ""]

====
